---- MODULE Spec2Model ----
(***************************************************************************)
(* Model of the scan server (src/others/main.js, lines 1-316): the job     *)
(* table, POST /scan, GET /status, DELETE /results, the worker threads the *)
(* server starts and the handlers it attaches to them.                      *)
(*                                                                          *)
(* A worker thread is seen from the server as a context that posts          *)
(* messages on an ordered channel and ends with an exit code.  Under Spec   *)
(* the inside of the pipeline is abstracted to "posts logs, then done or    *)
(* error"; SpecPipeline runs one job with the pipeline's stages in full.    *)
(***************************************************************************)
EXTENDS Naturals, Sequences, FiniteSets, TLC

\* ---------------------------------------------------------------- bounds
NumIds == 2          \* size of the id space randomBytes(6) draws from
MaxSubmits == 1      \* accepted POST /scan requests in a behaviour of Spec
MaxJobs == 2         \* accepted POST /scan requests in a behaviour of SpecJobs
MaxCancels == 1      \* DELETE /results requests in one behaviour
MaxStatus == 700     \* largest response status code classified
MaxRawLen == 4       \* characters of httpx.jsonl
MaxEntries == 2      \* lines of a discovery output file
MaxTasks == 2        \* lines of try.txt
MaxConc == 2         \* --concurrency

JobIds == 1..NumIds
Workers == 1..MaxJobs

\* ------------------------------------------------------------- hostnames
\* One representative per character class validateHostname tells apart:
\* "a" lowercase letter or digit, "A" uppercase letter, "." "-" themselves,
\* "_" any other character a URL host may hold.
Chars == {"a", "A", ".", "-", "_"}

\* The hosts submitted: one for each way validateHostname can go.
Hosts == {<<>>, <<"a">>, <<"a", ".">>, <<"A", ".">>, <<"_", ".">>}

\* String.prototype.toLowerCase on one character.
ToLower(c) == IF c = "A" THEN "a" ELSE c

toLowerCase(h) == [i \in DOMAIN h |-> ToLower(h[i])]

includes(h, c) == \E i \in DOMAIN h : h[i] = c

\* /^[a-z0-9.-]+$/.test(s)
MatchesCharset(s) == Len(s) > 0 /\ \A i \in DOMAIN s : s[i] \in {"a", ".", "-"}

\* validateHostname without its hostname.includes('.') conjunct.
validateHostname_NoDot(hostname) ==
    /\ Len(hostname) > 0
    /\ MatchesCharset(toLowerCase(hostname))

validateHostname(hostname) ==
    /\ Len(hostname) > 0
    /\ MatchesCharset(toLowerCase(hostname))
    /\ includes(hostname, ".")

\* The request bodies of POST /scan: no url, a string new URL() rejects, or a
\* URL with a host.  The URL parser lowercases the host of a special scheme
\* (http, https, ...) and rejects an empty one; the host of any other scheme
\* is kept as written.
Urls == {[kind |-> "missing", special |-> FALSE, host |-> <<>>],
         [kind |-> "unparsable", special |-> FALSE, host |-> <<>>]}
        \cup [kind : {"url"}, special : BOOLEAN, host : Hosts]

UrlParses(u) == u.kind = "url" /\ (u.special => Len(u.host) > 0)

UrlHostname(u) == IF u.special THEN toLowerCase(u.host) ELSE u.host

\* ----------------------------------------------------------------- state
VARIABLES
    partsInScope,  \* do `parts` and `allList` resolve in the server's scope
    jobs,          \* the Map jobs: id -> entry, NoJob where the id has none
    nSubmits,      \* accepted submits so far
    nCancels,      \* DELETE requests so far
    nWorkers,      \* Worker objects constructed so far
    wjob,          \* worker -> the jobId its handlers close over
    wstate,        \* worker -> where the thread is
    wterm,         \* workers whose terminate() has been called
    chan,          \* worker -> messages posted and not yet delivered
    rmPending,     \* id -> the DELETE request awaiting fs.rm, if any
    dirExists,     \* id -> does scans/scan-<id> exist
    metaOnDisk,    \* id -> the worker whose meta.json scans/scan-<id> holds, or 0
    hist,          \* id -> the distinct statuses its entry has held, in order
    issued,        \* ids returned by earlier submits
    cancelled,     \* ids whose running job a DELETE reported deleted
    termDelivered  \* workers whose done or error message has been handled

\* One pipeline run in full (SpecPipeline): the worker script of worker 1.
VARIABLES
    ppc,           \* the statement the script is at
    tasks,         \* meta.tasks: the names pushed so far
    files,         \* files of the job's workdir other than meta.json
    emitted,       \* every event the script has posted, in order
    outcome,       \* stage -> how its invocation ended
    metaFile,      \* what meta.json holds
    doneMeta       \* the meta the done event carries

pvars == <<ppc, tasks, files, emitted, outcome, metaFile, doneMeta>>

\* The classification of one response status (SpecClassify).
VARIABLES
    cstatus,       \* res.status
    ctag           \* tag, "none" until classified

\* TASK 5 on the contents of httpx.jsonl (SpecParse).
VARIABLES
    raw,           \* the characters of httpx.jsonl
    jsonLines,     \* jsonLines
    parsed         \* has TASK 5 run

\* TASK 3 on the contents of the discovery files (SpecMerge).
VARIABLES
    wexists,       \* the files that exist
    wfiles,        \* file name -> its lines
    gparts,        \* the files the server-scope `parts` names
    gall,          \* the file the server-scope `allList` names
    merged         \* how TASK 3 ended, "none" until it ran

\* The worker pool of the URL checker (SpecPool).
VARIABLES
    variant,       \* which of the two copies of the checker runs
    nLines,        \* lines.length
    concurrency,   \* concurrency
    mainpc,        \* where runMain / run is
    idx,           \* idx (i in url-checker.js): the next index to hand out
    fpc,           \* pool worker -> where its loop is
    index,         \* pool worker -> the index it claimed last
    claimed,       \* every index a worker has taken from idx, in order
    results,       \* results
    sink,          \* the result lines appended to results.txt, by index + 1
    appendFailed,  \* index + 1 of the results whose appendFile was caught
    summary,       \* the summary line
    returned       \* what fetchWithTimeout returned, per index, in order of return

fvars == <<variant, nLines, concurrency, mainpc, idx, fpc, index, claimed, results,
           sink, appendFailed, summary, returned>>

xvars == <<cstatus, ctag, raw, jsonLines, parsed, wexists, wfiles, gparts, gall, merged,
           fvars>>

cvars == <<partsInScope, jobs, nSubmits, nCancels, nWorkers, wjob, wstate, wterm, chan,
           rmPending, dirExists, metaOnDisk, hist, issued, cancelled,
           termDelivered>>

vars == <<cvars, pvars, xvars>>

NoJob == [status |-> "absent", worker |-> 0, error |-> "none", meta |-> 0]

Entry(s, w, e, m) == [status |-> s, worker |-> w, error |-> e, meta |-> m]

Resp(op, id, code, body) ==
    [op |-> op, id |-> id, code |-> code, body |-> body, error |-> "none", meta |-> 0]

\* jobs.set(jobId, entry), with the status history kept beside it.
JobsSet(js, hs, j, e) ==
    [table |-> [js EXCEPT ![j] = e],
     hist |-> IF hs[j] # <<>> /\ hs[j][Len(hs[j])] = e.status
              THEN hs ELSE [hs EXCEPT ![j] = Append(@, e.status)]]

Alive(w) == wstate[w] \in {"started", "running", "posted"}

CInit ==
    /\ partsInScope \in BOOLEAN
    /\ jobs = [j \in JobIds |-> NoJob]
    /\ nSubmits = 0
    /\ nCancels = 0
    /\ nWorkers = 0
    /\ wjob = [w \in Workers |-> 0]
    /\ wstate = [w \in Workers |-> "unborn"]
    /\ wterm = {}
    /\ chan = [w \in Workers |-> <<>>]
    /\ rmPending = [j \in JobIds |-> "none"]
    /\ dirExists = [j \in JobIds |-> FALSE]
    /\ metaOnDisk = [j \in JobIds |-> 0]
    /\ hist = [j \in JobIds |-> <<>>]
    /\ issued = {}
    /\ cancelled = {}
    /\ termDelivered = {}

Stages == {"mkdir", "subfinder", "amass", "merge", "httpx", "parse", "save"}

\* No meta: meta.json not written, no done event posted.
NoMeta ==
    [written |-> FALSE, jobId |-> FALSE, hostname |-> FALSE, startedAt |-> FALSE,
     tasks |-> <<>>, finishedAt |-> FALSE]

PInit ==
    /\ metaFile = NoMeta
    /\ doneMeta = NoMeta
    /\ ppc = "idle"
    /\ tasks = <<>>
    /\ files = {}
    /\ emitted = <<>>
    /\ outcome = [s \in Stages |-> "none"]

MergeFiles == {"subfinder.txt", "amass.txt", "foreign.txt", "all.txt"}

\* Nothing classified, parsed or merged.
ClassifyIdle == cstatus = 0 /\ ctag = "none"

ParseIdle == raw = <<>> /\ jsonLines = <<>> /\ parsed = FALSE

MergeIdle ==
    /\ wexists = {}
    /\ wfiles = [f \in MergeFiles |-> <<>>]
    /\ gparts = {}
    /\ gall = "all.txt"
    /\ merged = "none"

PoolWorkers == 1..MaxConc

NoSummary == [done |-> FALSE, total |-> 0, ok |-> 0, redirects |-> 0]

PoolState0 ==
    /\ mainpc = "start"
    /\ idx = 0
    /\ fpc = [w \in PoolWorkers |-> "unused"]
    /\ index = [w \in PoolWorkers |-> 0]
    /\ claimed = <<>>
    /\ results = <<>>
    /\ sink = <<>>
    /\ appendFailed = {}
    /\ summary = NoSummary
    /\ returned = <<>>

PoolIdle ==
    /\ variant = "main"
    /\ nLines = 0
    /\ concurrency = 1
    /\ PoolState0

XInit == ClassifyIdle /\ ParseIdle /\ MergeIdle /\ PoolIdle

Init == CInit /\ PInit /\ XInit

\* ------------------------------------------------------------ POST /scan
RejectReason(u) ==
    IF u.kind = "missing" THEN "url required"
    ELSE IF ~UrlParses(u) THEN "invalid url"
    ELSE IF ~validateHostname(UrlHostname(u)) THEN "invalid hostname"
    ELSE "none"

\* startScanWorker: building workerCode evaluates the two placeholders line 103
\* leaves unescaped, ${parts.map(...)} and ${allList}, in the server's scope.
\* Where they do not resolve the executor throws a ReferenceError before
\* new Worker(): the promise rejects, POST /scan logs it, and the entry stays
\* as POST /scan set it.  Otherwise the Worker is constructed and the entry set
\* to running with its handle.
StartScanWorker(q, id) ==
    IF partsInScope
    THEN LET w == nWorkers + 1
             r == JobsSet(q.table, q.hist, id, Entry("running", w, "none", 0))
         IN  /\ jobs' = r.table
             /\ hist' = r.hist
             /\ nWorkers' = w
             /\ wjob' = [wjob EXCEPT ![w] = id]
             /\ wstate' = [wstate EXCEPT ![w] = "started"]
    ELSE /\ jobs' = q.table
         /\ hist' = q.hist
         /\ UNCHANGED <<nWorkers, wjob, wstate>>

\* The response of POST /scan to body {url: u} when randomBytes(6) returns id.
SubmitResponse(u, id) ==
    IF RejectReason(u) # "none"
    THEN Resp("submit", 0, 400, RejectReason(u))
    ELSE Resp("submit", id, 200, "scan started")

\* POST /scan past its validation: id is what randomBytes(6) returns and mk
\* whether mkdirSync(workdir) succeeds (its failure is swallowed).
Accept(id, mk) ==
    /\ nSubmits < MaxJobs
    /\ nSubmits' = nSubmits + 1
    /\ dirExists' = IF mk THEN [dirExists EXCEPT ![id] = TRUE] ELSE dirExists
    /\ StartScanWorker(JobsSet(jobs, hist, id, Entry("queued", 0, "none", 0)), id)
    /\ issued' = issued \cup {id}
    /\ UNCHANGED <<partsInScope, nCancels, wterm, chan, rmPending, metaOnDisk,
                   cancelled, termDelivered, pvars, xvars>>

\* POST /scan with body {url: u}.
Submit(u) ==
    IF RejectReason(u) # "none"
    THEN UNCHANGED vars
    ELSE \E id \in JobIds, mk \in BOOLEAN : Accept(id, mk)

\* ------------------------------------------------------ GET /status/:jobId
\* GET /status without the look at meta.json.
StatusResponse_TableOnly(j) ==
    IF jobs[j] # NoJob
    THEN [Resp("status", j, 200, jobs[j].status) EXCEPT
             !.error = jobs[j].error, !.meta = jobs[j].meta]
    ELSE Resp("status", j, 404, "job not found")

StatusResponse(j) ==
    IF jobs[j] # NoJob
    THEN [Resp("status", j, 200, jobs[j].status) EXCEPT
             !.error = jobs[j].error, !.meta = jobs[j].meta]
    ELSE IF metaOnDisk[j] # 0
    THEN [Resp("status", j, 200, "done") EXCEPT !.meta = metaOnDisk[j]]
    ELSE Resp("status", j, 404, "job not found")

\* The handler reads the table and the disk and writes nothing.
Status(j) ==
    /\ StatusResponse(j).op = "status"
    /\ UNCHANGED vars

\* --------------------------------------------------- DELETE /results/:jobId
\* Up to the await of fs.rm: terminate the worker the entry holds, if any.
CancelBegin(j) ==
    /\ rmPending[j] = "none"
    /\ nCancels < MaxCancels
    /\ nCancels' = nCancels + 1
    /\ IF jobs[j] # NoJob /\ jobs[j].worker # 0
       THEN /\ wterm' = IF Alive(jobs[j].worker)
                        THEN wterm \cup {jobs[j].worker} ELSE wterm
            /\ rmPending' = [rmPending EXCEPT ![j] = "running"]
       ELSE /\ wterm' = wterm
            /\ rmPending' = [rmPending EXCEPT ![j] = "plain"]
    /\ UNCHANGED <<partsInScope, jobs, nSubmits, nWorkers, wjob, wstate, chan,
                   dirExists, metaOnDisk, hist, issued, cancelled,
                   termDelivered, pvars, xvars>>

CancelResponse(j, ok) ==
    IF ok THEN Resp("cancel", j, 200, "deleted")
    ELSE Resp("cancel", j, 500, "failed to delete")

\* A DELETE that drops the entry before it knows how fs.rm ended.
CancelEnd_DeleteFirst(j, ok) ==
    /\ rmPending[j] # "none"
    /\ rmPending' = [rmPending EXCEPT ![j] = "none"]
    /\ jobs' = [jobs EXCEPT ![j] = NoJob]
    /\ IF ok
       THEN /\ dirExists' = [dirExists EXCEPT ![j] = FALSE]
            /\ metaOnDisk' = [metaOnDisk EXCEPT ![j] = 0]
            /\ cancelled' = IF rmPending[j] = "running"
                            THEN cancelled \cup {j} ELSE cancelled
       ELSE UNCHANGED <<dirExists, metaOnDisk, cancelled>>
    /\ UNCHANGED <<partsInScope, nSubmits, nCancels, nWorkers, wjob, wstate, wterm, chan,
                   hist, issued, termDelivered, pvars, xvars>>

\* After the await: fs.rm resolved (ok) or rejected.
CancelEnd(j, ok) ==
    /\ rmPending[j] # "none"
    /\ rmPending' = [rmPending EXCEPT ![j] = "none"]
    /\ IF ok
       THEN /\ dirExists' = [dirExists EXCEPT ![j] = FALSE]
            /\ metaOnDisk' = [metaOnDisk EXCEPT ![j] = 0]
            /\ jobs' = [jobs EXCEPT ![j] = NoJob]
            /\ cancelled' = IF rmPending[j] = "running"
                            THEN cancelled \cup {j} ELSE cancelled
       ELSE UNCHANGED <<dirExists, metaOnDisk, jobs, cancelled>>
    /\ UNCHANGED <<partsInScope, nSubmits, nCancels, nWorkers, wjob, wstate, wterm, chan,
                   hist, issued, termDelivered, pvars, xvars>>

\* ------------------------------------------------- the worker, as a context
\* fs.mkdir(workdir, {recursive: true}) at the head of the script.
WorkerMkdir(w, ok) ==
    /\ wstate[w] = "started"
    /\ IF ok
       THEN /\ dirExists' = [dirExists EXCEPT ![wjob[w]] = TRUE]
            /\ wstate' = [wstate EXCEPT ![w] = "running"]
            /\ chan' = chan
       ELSE /\ chan' = [chan EXCEPT ![w] = Append(@, "error")]
            /\ wstate' = [wstate EXCEPT ![w] = "posted"]
            /\ dirExists' = dirExists
    /\ UNCHANGED <<partsInScope, jobs, nSubmits, nCancels, nWorkers, wjob, wterm, rmPending,
                   metaOnDisk, hist, issued, cancelled, termDelivered, pvars, xvars>>

\* The script reaches its last statement: the three artifacts are written
\* (which needs the workdir) and done is posted.
WorkerPostDone(w) ==
    /\ wstate[w] = "running"
    /\ dirExists[wjob[w]]
    /\ metaOnDisk' = [metaOnDisk EXCEPT ![wjob[w]] = w]
    /\ chan' = [chan EXCEPT ![w] = Append(@, "done")]
    /\ wstate' = [wstate EXCEPT ![w] = "posted"]
    /\ UNCHANGED <<partsInScope, jobs, nSubmits, nCancels, nWorkers, wjob, wterm, rmPending,
                   dirExists, hist, issued, cancelled, termDelivered, pvars, xvars>>

\* The script's catch block: an awaited step threw.
WorkerPostError(w) ==
    /\ wstate[w] = "running"
    /\ chan' = [chan EXCEPT ![w] = Append(@, "error")]
    /\ wstate' = [wstate EXCEPT ![w] = "posted"]
    /\ UNCHANGED <<partsInScope, jobs, nSubmits, nCancels, nWorkers, wjob, wterm, rmPending,
                   dirExists, metaOnDisk, hist, issued, cancelled,
                   termDelivered, pvars, xvars>>

\* ------------------------------------------------- the server's handlers
\* A 'message' handler without its error branch.
OnMessage_NoErrorBranch(js, hs, j, w, m) ==
    IF m = "done" THEN JobsSet(js, hs, j, Entry("done", 0, "none", w))
    ELSE [table |-> js, hist |-> hs]

\* worker.on('message', m => ...)
OnMessage(js, hs, j, w, m) ==
    IF m = "done" THEN JobsSet(js, hs, j, Entry("done", 0, "none", w))
    ELSE IF m = "error" THEN JobsSet(js, hs, j, Entry("failed", 0, "message", 0))
    ELSE [table |-> js, hist |-> hs]

\* An 'error' handler that updates the entry in place.
OnError_KeepHandle(js, hs, j) ==
    JobsSet(js, hs, j, [js[j] EXCEPT !.status = "failed", !.error = "thread"])

\* worker.on('error', err => ...)
OnError(js, hs, j) == JobsSet(js, hs, j, Entry("failed", 0, "thread", 0))

\* An 'exit' handler that leaves the table alone whatever the code.
OnExit_Ignore(js, hs, j, code) == [table |-> js, hist |-> hs]

\* worker.on('exit', code => ...)
OnExit(js, hs, j, code) ==
    IF code # 0 /\ js[j].status \notin {"done", "failed"}
    THEN JobsSet(js, hs, j, Entry("failed", 0, "exit", 0))
    ELSE [table |-> js, hist |-> hs]

\* The next message of worker w reaches the server.
Deliver(w) ==
    /\ chan[w] # <<>>
    /\ LET r == OnMessage(jobs, hist, wjob[w], w, Head(chan[w]))
       IN  /\ jobs' = r.table
           /\ hist' = r.hist
    /\ chan' = [chan EXCEPT ![w] = Tail(@)]
    /\ termDelivered' = IF Head(chan[w]) \in {"done", "error"}
                        THEN termDelivered \cup {w} ELSE termDelivered
    /\ UNCHANGED <<partsInScope, nSubmits, nCancels, nWorkers, wjob, wstate, wterm, rmPending,
                   dirExists, metaOnDisk, issued, cancelled, pvars, xvars>>

\* The thread dies of an uncaught exception or of a resource limit and its
\* 'error' event reaches the server.  The event travels on the worker's
\* internal port, so it is not ordered with the messages still on the public
\* one; the 'exit' event (code 1) follows once both are drained.
ErrorEvent(w) ==
    /\ Alive(w)
    /\ LET r == OnError(jobs, hist, wjob[w])
       IN  /\ jobs' = r.table
           /\ hist' = r.hist
    /\ wstate' = [wstate EXCEPT ![w] = "dying"]
    /\ wterm' = wterm \ {w}
    /\ UNCHANGED <<partsInScope, nSubmits, nCancels, nWorkers, wjob, chan, rmPending,
                   dirExists, metaOnDisk, issued, cancelled, termDelivered, pvars, xvars>>

\* The exit codes thread w can end with now: 0 when its script is through,
\* 1 when terminate() was called on it or an uncaught error killed it.
ExitCodes(w) ==
    (IF wstate[w] = "posted" THEN {0} ELSE {})
    \cup (IF Alive(w) /\ w \in wterm THEN {1} ELSE {})
    \cup (IF wstate[w] = "dying" THEN {1} ELSE {})

\* The thread has ended and its 'exit' event reaches the server; the event is
\* emitted after the messages the thread posted have been delivered.
ExitEvent(w, code) ==
    /\ code \in ExitCodes(w)
    /\ chan[w] = <<>>
    /\ LET r == OnExit(jobs, hist, wjob[w], code)
       IN  /\ jobs' = r.table
           /\ hist' = r.hist
    /\ wstate' = [wstate EXCEPT ![w] = "exited"]
    /\ wterm' = wterm \ {w}
    /\ UNCHANGED <<partsInScope, nSubmits, nCancels, nWorkers, wjob, chan, rmPending,
                   dirExists, metaOnDisk, issued, cancelled, termDelivered, pvars, xvars>>

\* -------------------------------------------------- the worker script in full
\* The script of worker PW, statement by statement (SpecPipeline).
PW == 1

\* How a spawnCmd call can end: resolved, or rejected because the binary is
\* missing ('error'), the exit code is not 0 ('close'), or the timer fired.
ToolOutcomes == {"ok", "missing", "nonzero", "timeout"}

StageNames == <<"subfinder", "amass", "merge", "httpx", "parse_httpx", "save_results">>

Artifacts == {"results.json", "results.txt", "meta.json"}

\* parentPort.postMessage for each of evs, in order.
Post(evs) ==
    /\ chan' = [chan EXCEPT ![PW] = @ \o evs]
    /\ emitted' = emitted \o evs

\* The script's catch block: one error event, and the script is through.
Throw(evs) ==
    /\ Post(evs \o <<"error">>)
    /\ ppc' = "end"
    /\ wstate' = [wstate EXCEPT ![PW] = "posted"]

\* await fs.mkdir(workdir, {recursive: true}); the first log.
P_Mkdir(ok) ==
    /\ ppc = "idle"
    /\ wstate[PW] = "started"
    /\ outcome' = [outcome EXCEPT !["mkdir"] = IF ok THEN "ok" ELSE "fsfail"]
    /\ IF ok
       THEN /\ dirExists' = [dirExists EXCEPT ![wjob[PW]] = TRUE]
            /\ Post(<<"log">>)
            /\ ppc' = "subfinder"
            /\ wstate' = [wstate EXCEPT ![PW] = "running"]
       ELSE /\ Throw(<<>>)
            /\ dirExists' = dirExists
    /\ UNCHANGED <<partsInScope, jobs, nSubmits, nCancels, nWorkers, wjob, wterm,
                   rmPending, metaOnDisk, hist, issued, cancelled, termDelivered,
                   tasks, files>>
    /\ UNCHANGED <<xvars, metaFile, doneMeta>>

\* A discovery stage: spawnCmd(...).catch(log), then meta.tasks.push.  o is how
\* the tool ended and wrote whether it left its output file behind.
Discover(stage, file, next, o, wrote) ==
    /\ ppc = stage
    /\ o = "missing" => ~wrote
    /\ Post(IF o = "ok" THEN <<"log">> ELSE <<"log", "log">>)
    /\ files' = IF wrote THEN files \cup {file} ELSE files
    /\ tasks' = Append(tasks, stage)
    /\ outcome' = [outcome EXCEPT ![stage] = o]
    /\ ppc' = next
    /\ UNCHANGED <<partsInScope, jobs, nSubmits, nCancels, nWorkers, wjob, wstate,
                   wterm, rmPending, dirExists, metaOnDisk, hist, issued, cancelled,
                   termDelivered>>
    /\ UNCHANGED <<xvars, metaFile, doneMeta>>

\* TASK 1
P_Subfinder(o, wrote) == Discover("subfinder", "subfinder.txt", "amass", o, wrote)

\* TASK 2
P_Amass(o, wrote) == Discover("amass", "amass.txt", "merge", o, wrote)

\* TASK 3: with an input present, bash runs the merge command and its
\* rejection is not caught; with none, fs.writeFile creates an empty all.txt.
P_Merge(o, fsok) ==
    /\ ppc = "merge"
    /\ LET parts == files \cap {"subfinder.txt", "amass.txt"}
           res == IF parts # {} THEN o ELSE IF fsok THEN "ok" ELSE "fsfail"
       IN  /\ parts # {} => fsok
           /\ parts = {} => o = "ok"
           /\ outcome' = [outcome EXCEPT !["merge"] = res]
           /\ IF res = "ok"
              THEN /\ Post(<<"log">>)
                   /\ files' = files \cup {"all.txt"}
                   /\ tasks' = Append(tasks, "merge")
                   /\ ppc' = "httpx"
                   /\ wstate' = wstate
              ELSE /\ Throw(<<"log">>)
                   /\ UNCHANGED <<files, tasks>>
    /\ UNCHANGED <<partsInScope, jobs, nSubmits, nCancels, nWorkers, wjob, wterm,
                   rmPending, dirExists, metaOnDisk, hist, issued, cancelled,
                   termDelivered>>
    /\ UNCHANGED <<xvars, metaFile, doneMeta>>

\* TASK 4: on rejection the catch logs and writes an empty httpx.jsonl; that
\* write failing is not caught.
P_Httpx(o, wrote, fsok) ==
    /\ ppc = "httpx"
    /\ o = "missing" => ~wrote
    /\ o = "ok" => fsok
    /\ outcome' = [outcome EXCEPT !["httpx"] = IF fsok THEN o ELSE "fsfail"]
    /\ IF o = "ok"
       THEN /\ Post(<<"log">>)
            /\ files' = IF wrote THEN files \cup {"httpx.jsonl"} ELSE files
            /\ tasks' = Append(tasks, "httpx")
            /\ ppc' = "parse"
            /\ wstate' = wstate
       ELSE IF fsok
       THEN /\ Post(<<"log", "log">>)
            /\ files' = files \cup {"httpx.jsonl"}
            /\ tasks' = Append(tasks, "httpx")
            /\ ppc' = "parse"
            /\ wstate' = wstate
       ELSE /\ Throw(<<"log", "log">>)
            /\ files' = IF wrote THEN files \cup {"httpx.jsonl"} ELSE files
            /\ tasks' = tasks
    /\ UNCHANGED <<partsInScope, jobs, nSubmits, nCancels, nWorkers, wjob, wterm,
                   rmPending, dirExists, metaOnDisk, hist, issued, cancelled,
                   termDelivered>>
    /\ UNCHANGED <<xvars, metaFile, doneMeta>>

\* TASK 5: a failed read of httpx.jsonl is caught and gives no records.
P_Parse ==
    /\ ppc = "parse"
    /\ Post(<<"log">>)
    /\ outcome' = [outcome EXCEPT !["parse"] =
                      IF "httpx.jsonl" \in files THEN "ok" ELSE "fsfail"]
    /\ tasks' = Append(tasks, "parse_httpx")
    /\ ppc' = "save"
    /\ UNCHANGED <<partsInScope, jobs, nSubmits, nCancels, nWorkers, wjob, wstate,
                   wterm, rmPending, dirExists, metaOnDisk, hist, issued, cancelled,
                   termDelivered, files>>
    /\ UNCHANGED <<xvars, metaFile, doneMeta>>

\* The artifacts written when the write of `failing` is the first to reject.
Written(failing) ==
    IF failing = "results.json" THEN {}
    ELSE IF failing = "results.txt" THEN {"results.json"}
    ELSE IF failing = "meta.json" THEN {"results.json", "results.txt"}
    ELSE Artifacts

\* TASK 6 with a catch block that runs after the done event as well.
SaveEvents_CatchAfterDone(failing) ==
    IF failing = "none" THEN <<"log", "done", "error">> ELSE <<"log", "error">>

\* The events TASK 6 posts.
SaveEvents(failing) ==
    IF failing = "none" THEN <<"log", "done">> ELSE <<"log", "error">>

\* The object meta as JSON.stringify or postMessage copies it: jobId, hostname
\* and startedAt are set where it is created, tasks is ts, and finishedAt is
\* set or not yet.
Meta(ts, finished) ==
    [written |-> TRUE, jobId |-> TRUE, hostname |-> TRUE, startedAt |-> TRUE,
     tasks |-> ts, finishedAt |-> finished]

\* TASK 6: results.json, results.txt and meta.json are written one after the
\* other, none of the writes caught; then the last push, finishedAt and the
\* done event.
P_Save(failing) ==
    /\ ppc = "save"
    /\ Post(SaveEvents(failing))
    /\ files' = files \cup (Written(failing) \ {"meta.json"})
    /\ metaOnDisk' = IF "meta.json" \in Written(failing)
                     THEN [metaOnDisk EXCEPT ![wjob[PW]] = PW] ELSE metaOnDisk
    /\ outcome' = [outcome EXCEPT !["save"] = IF failing = "none" THEN "ok" ELSE "fsfail"]
    /\ tasks' = IF failing = "none" THEN Append(tasks, "save_results") ELSE tasks
    /\ metaFile' = IF "meta.json" \in Written(failing)
                   THEN Meta(tasks, FALSE) ELSE metaFile
    /\ doneMeta' = IF failing = "none"
                   THEN Meta(Append(tasks, "save_results"), TRUE) ELSE doneMeta
    /\ ppc' = "end"
    /\ wstate' = [wstate EXCEPT ![PW] = "posted"]
    /\ UNCHANGED <<partsInScope, jobs, nSubmits, nCancels, nWorkers, wjob, wterm,
                   rmPending, dirExists, hist, issued, cancelled, termDelivered>>
    /\ UNCHANGED xvars

\* ------------------------------------------ classification of a response
\* let tag = "UNKNOWN"; if (status >= 200 && status < 300) ... as the worker
\* of the URL checker classifies res.status.
Tag(status) ==
    IF status >= 200 /\ status < 300 THEN "OK"
    ELSE IF status >= 300 /\ status < 400 THEN "REDIRECT"
    ELSE IF status >= 400 /\ status < 500 THEN "NOTFOUND/CLIENT"
    ELSE IF status >= 500 THEN "SERVERERROR"
    ELSE "UNKNOWN"

ClassifyInit ==
    /\ CInit /\ partsInScope = FALSE
    /\ PInit
    /\ ParseIdle /\ MergeIdle /\ PoolIdle
    /\ cstatus \in 0..MaxStatus
    /\ ctag = "none"

Classify ==
    /\ ctag = "none"
    /\ ctag' = Tag(cstatus)
    /\ UNCHANGED <<cvars, pvars, cstatus, raw, jsonLines, parsed, wexists, wfiles,
                   gparts, gall, merged, fvars>>

SpecClassify == ClassifyInit /\ [][Classify]_vars

\* --------------------------------------------------- TASK 5 on its input
\* The characters of httpx.jsonl: "1" a digit (a line of digits is a JSON
\* number), "x" any character that makes its line fail JSON.parse, "\n".
RawChars == {"1", "x", "\n"}

RECURSIVE Raws(_)
Raws(n) ==
    IF n = 0 THEN {<<>>}
    ELSE Raws(n - 1) \cup {Append(r, c) : r \in {q \in Raws(n - 1) : Len(q) = n - 1}, c \in RawChars}

\* raw.split('\n'): the pieces between newlines, empty ones included.
RECURSIVE split(_)
split(r) ==
    IF \A i \in DOMAIN r : r[i] # "\n" THEN <<r>>
    ELSE LET k == CHOOSE i \in DOMAIN r :
                     r[i] = "\n" /\ \A h \in 1..(i - 1) : r[h] # "\n"
         IN  <<SubSeq(r, 1, k - 1)>> \o split(SubSeq(r, k + 1, Len(r)))

\* Boolean(l) for a string.
Truthy(l) == Len(l) > 0

\* try { return JSON.parse(l) } catch(e) { return {_parseError: true, raw: l} }
ParseLine(l) ==
    IF l # <<>> /\ \A i \in DOMAIN l : l[i] = "1"
    THEN [kind |-> "number", digits |-> Len(l), raw |-> <<>>]
    ELSE [kind |-> "_parseError", digits |-> 0, raw |-> l]

\* A map that loses the lines JSON.parse rejects.
ParseAll_DropInvalid(ls) ==
    LET ok == SelectSeq(ls, LAMBDA l : ParseLine(l).kind = "number")
    IN  [i \in DOMAIN ok |-> ParseLine(ok[i])]

\* raw.split('\n').filter(Boolean).map(...), from the split lines on.
ParseAll(ls) ==
    LET kept == SelectSeq(ls, Truthy)
    IN  [i \in DOMAIN kept |-> ParseLine(kept[i])]

ParseInit ==
    /\ CInit /\ partsInScope = TRUE
    /\ PInit
    /\ ClassifyIdle /\ MergeIdle /\ PoolIdle
    /\ raw \in Raws(MaxRawLen)
    /\ jsonLines = <<>>
    /\ parsed = FALSE

\* TASK 5 with httpx.jsonl readable.
Parse ==
    /\ ~parsed
    /\ parsed' = TRUE
    /\ jsonLines' = ParseAll(split(raw))
    /\ UNCHANGED <<cvars, pvars, cstatus, ctag, raw, wexists, wfiles, gparts, gall, merged,
                   fvars>>

SpecParse == ParseInit /\ [][Parse]_vars

\* --------------------------------------------------- TASK 3 on its input
Entries == {"x", "y"}

\* The lines a discovery tool can leave in its output file.
RECURSIVE Lists(_)
Lists(n) ==
    IF n = 0 THEN {<<>>}
    ELSE Lists(n - 1) \cup {Append(l, e) : l \in {q \in Lists(n - 1) : Len(q) = n - 1}, e \in Entries}

Inputs == {"subfinder.txt", "amass.txt"}

\* The files the command line can name, in the order cat takes them.
PartOrder == <<"subfinder.txt", "amass.txt", "foreign.txt">>

\* The lines sort orders, in sort's order.
EntryOrder == <<"x", "y", "z">>

\* cat f1 f2 ...: the lines of the named files that exist, one file after the
\* other (a missing file gives a message on stderr and no line).
RECURSIVE Cat(_, _, _)
Cat(names, exists, content) ==
    IF names = <<>> THEN <<>>
    ELSE (IF Head(names) \in exists THEN content[Head(names)] ELSE <<>>)
         \o Cat(Tail(names), exists, content)

\* sort -u
SortU(ls) == SelectSeq(EntryOrder, LAMBDA e : \E i \in DOMAIN ls : ls[i] = e)

\* The text the server builds for bash: line 103's ${parts.map(...)} and
\* ${allList} are placeholders of the server's template literal, so the
\* command names the files of the server-scope `parts` and writes to the
\* server-scope `allList`, whatever the worker's own parts and allList are.
MergeCommand(names, out, exists, content) ==
    [file |-> out,
     lines |-> SortU(Cat(SelectSeq(PartOrder, LAMBDA f : f \in names), exists, content))]

MergeInit ==
    /\ CInit
    /\ PInit
    /\ ClassifyIdle /\ ParseIdle /\ PoolIdle
    /\ wexists \in {e \cup {"foreign.txt"} : e \in SUBSET Inputs}
    /\ wfiles \in {[f \in MergeFiles |->
                      IF f = "subfinder.txt" THEN a
                      ELSE IF f = "amass.txt" THEN b
                      ELSE IF f = "foreign.txt" THEN <<"z">> ELSE <<>>] :
                   a \in Lists(MaxEntries), b \in Lists(MaxEntries)}
    /\ \A f \in Inputs : f \notin wexists => wfiles[f] = <<>>
    /\ gparts \in SUBSET {"subfinder.txt", "amass.txt", "foreign.txt"}
    /\ gall \in {"all.txt", "elsewhere.txt"}
    /\ ~partsInScope => (gparts = {} /\ gall = "all.txt")
    /\ merged = "none"

\* TASK 3 in a worker that exists: fs.access on the two outputs, then bash
\* with the command the server built (o is how it ends), or fs.writeFile of
\* an empty all.txt (fsok) when neither output exists.
TaskMerge(o, fsok) ==
    /\ partsInScope
    /\ merged = "none"
    /\ LET parts == wexists \cap Inputs
           cmd == MergeCommand(gparts, gall, wexists, wfiles)
       IN  IF parts # {}
           THEN /\ fsok
                /\ merged' = IF o = "ok" THEN "ok" ELSE "error"
                /\ IF o = "ok" /\ cmd.file = "all.txt"
                   THEN /\ wexists' = wexists \cup {"all.txt"}
                        /\ wfiles' = [wfiles EXCEPT !["all.txt"] = cmd.lines]
                   ELSE UNCHANGED <<wexists, wfiles>>
           ELSE /\ o = "ok"
                /\ merged' = IF fsok THEN "ok" ELSE "error"
                /\ IF fsok
                   THEN /\ wexists' = wexists \cup {"all.txt"}
                        /\ wfiles' = [wfiles EXCEPT !["all.txt"] = <<>>]
                   ELSE UNCHANGED <<wexists, wfiles>>
    /\ UNCHANGED <<cvars, pvars, cstatus, ctag, raw, jsonLines, parsed, gparts, gall, fvars>>

SpecMerge == MergeInit /\ [][\E o \in ToolOutcomes, fsok \in BOOLEAN : TaskMerge(o, fsok)]_vars

\* ------------------------------------------------ the URL checker's pool

\* The two copies of the checker: runMain in main.js and run in url-checker.js.
Variants == {"main", "url-checker"}

\* What fetchWithTimeout returns: { ok: true, res } with res.status, or
\* { ok: false, err } with err.name "AbortError" when the timer aborted the
\* request and another name for any other failure.
PoolStatuses == {200, 301, 404}

FetchOutcomes ==
    {[ok |-> TRUE, status |-> st, err |-> "none"] : st \in PoolStatuses}
        \cup {[ok |-> FALSE, status |-> 0, err |-> e] : e \in {"AbortError", "TypeError"}}

Reason_MessageOnly(err) == "message"

\* err.name === "AbortError" ? `TIMEOUT (${timeoutMs}ms)` : err.message
Reason(err) == IF err = "AbortError" THEN "TIMEOUT" ELSE "message"

\* resultObj.  num is typeof status === "number"; a status that is the string
\* "ERROR" is num = FALSE, status = 0.  suffix is lines[index], written as the
\* position of the line.  url-checker.js stores neither index nor, for an
\* error, tag.
ResultObj(w, r) ==
    IF ~r.ok
    THEN [index  |-> IF variant = "main" THEN index[w] + 1 ELSE 0,
          suffix |-> index[w],
          num    |-> FALSE,
          status |-> 0,
          tag    |-> IF variant = "main" THEN "ERROR" ELSE "none",
          detail |-> Reason(r.err)]
    ELSE [index  |-> IF variant = "main" THEN index[w] + 1 ELSE 0,
          suffix |-> index[w],
          num    |-> TRUE,
          status |-> r.status,
          tag    |-> Tag(r.status),
          detail |-> "none"]

PoolInit ==
    /\ CInit /\ partsInScope = FALSE
    /\ PInit
    /\ ClassifyIdle /\ ParseIdle /\ MergeIdle
    /\ variant \in Variants
    /\ nLines \in 0..MaxTasks
    /\ concurrency \in 1..MaxConc
    /\ PoolState0

Min_First(a, b) == a

Min(a, b) == IF a < b THEN a ELSE b

\* lines.length === 0 returns before the pool; otherwise workerCount workers
\* are started one after the other, each running to its first await, so the
\* k-th one has taken index k - 1 before the next one starts.
PoolStart ==
    /\ mainpc = "start"
    /\ IF nLines = 0
       THEN /\ mainpc' = "finished"
            /\ UNCHANGED <<idx, fpc, index, claimed>>
       ELSE LET workerCount == Min(concurrency, nLines)
            IN  /\ mainpc' = "running"
                /\ idx' = workerCount
                /\ fpc' = [w \in PoolWorkers |->
                              IF w <= workerCount THEN "fetching" ELSE "unused"]
                /\ index' = [w \in PoolWorkers |->
                                IF w <= workerCount THEN w - 1 ELSE 0]
                /\ claimed' = [k \in 1..workerCount |-> k - 1]
    /\ UNCHANGED <<cvars, pvars, cstatus, ctag, raw, jsonLines, parsed, wexists, wfiles,
                   gparts, gall, merged, variant, nLines, concurrency, results, sink,
                   appendFailed, summary, returned>>

Claim_PreIncrement(w) ==
    /\ index' = [index EXCEPT ![w] = idx + 1]
    /\ idx' = idx + 1
    /\ claimed' = IF idx + 1 >= nLines THEN claimed ELSE Append(claimed, idx + 1)
    /\ fpc' = [fpc EXCEPT ![w] = IF idx + 1 >= nLines THEN "done" ELSE "fetching"]

\* const index = idx++; if (index >= lines.length) break;
Claim(w) ==
    /\ index' = [index EXCEPT ![w] = idx]
    /\ idx' = idx + 1
    /\ claimed' = IF idx >= nLines THEN claimed ELSE Append(claimed, idx)
    /\ fpc' = [fpc EXCEPT ![w] = IF idx >= nLines THEN "done" ELSE "fetching"]

\* The await of fetchWithTimeout resumes: build resultObj, results.push, then
\* start the append (main.js), start the delay (url-checker.js, success) or
\* continue straight to the next index (url-checker.js, error).
FetchReturn(w, r) ==
    /\ mainpc = "running"
    /\ fpc[w] = "fetching"
    /\ results' = Append(results, ResultObj(w, r))
    /\ returned' = Append(returned, [suffix |-> index[w], r |-> r])
    /\ IF variant = "main"
       THEN /\ fpc' = [fpc EXCEPT ![w] = "appending"]
            /\ UNCHANGED <<idx, index, claimed>>
       ELSE IF r.ok
            THEN /\ fpc' = [fpc EXCEPT ![w] = "waiting"]
                 /\ UNCHANGED <<idx, index, claimed>>
            ELSE Claim(w)
    /\ UNCHANGED <<cvars, pvars, cstatus, ctag, raw, jsonLines, parsed, wexists, wfiles,
                   gparts, gall, merged, variant, nLines, concurrency, mainpc, sink,
                   appendFailed, summary>>

AppendDone_Unlogged(w, ok) ==
    /\ mainpc = "running"
    /\ fpc[w] = "appending"
    /\ sink' = IF ok THEN Append(sink, index[w] + 1) ELSE sink
    /\ fpc' = [fpc EXCEPT ![w] = "waiting"]
    /\ UNCHANGED <<cvars, pvars, cstatus, ctag, raw, jsonLines, parsed, wexists, wfiles,
                   gparts, gall, merged, variant, nLines, concurrency, mainpc, idx, index,
                   claimed, results, appendFailed, summary, returned>>

\* The await of fs.appendFile resumes, with the line written or with the
\* failure caught and logged; then the delay starts.
AppendDone(w, ok) ==
    /\ mainpc = "running"
    /\ fpc[w] = "appending"
    /\ sink' = IF ok THEN Append(sink, index[w] + 1) ELSE sink
    /\ appendFailed' = IF ok THEN appendFailed ELSE appendFailed \cup {index[w] + 1}
    /\ fpc' = [fpc EXCEPT ![w] = "waiting"]
    /\ UNCHANGED <<cvars, pvars, cstatus, ctag, raw, jsonLines, parsed, wexists, wfiles,
                   gparts, gall, merged, variant, nLines, concurrency, mainpc, idx, index,
                   claimed, results, summary, returned>>

\* await wait(50) resumes and the loop takes the next index.
WaitDone(w) ==
    /\ mainpc = "running"
    /\ fpc[w] = "waiting"
    /\ Claim(w)
    /\ UNCHANGED <<cvars, pvars, cstatus, ctag, raw, jsonLines, parsed, wexists, wfiles,
                   gparts, gall, merged, variant, nLines, concurrency, mainpc, results,
                   sink, appendFailed, summary, returned>>

AllSettled_Any == \E w \in PoolWorkers : fpc[w] = "done"

\* await Promise.all(workers): every started worker has left its loop.
AllSettled == \A w \in PoolWorkers : fpc[w] \in {"done", "unused"}

\* okCount, redirectCount and results.length.  r.status === "OK" is never true
\* of a stored status, which is "ERROR" or a number.
Summary(rs) ==
    [done      |-> TRUE,
     total     |-> Len(rs),
     ok        |-> Cardinality({i \in DOMAIN rs :
                       rs[i].num /\ rs[i].status >= 200 /\ rs[i].status < 300}),
     redirects |-> Cardinality({i \in DOMAIN rs : rs[i].tag = "REDIRECT"})]

PoolFinish ==
    /\ mainpc = "running"
    /\ AllSettled
    /\ summary' = Summary(results)
    /\ mainpc' = "finished"
    /\ UNCHANGED <<cvars, pvars, cstatus, ctag, raw, jsonLines, parsed, wexists, wfiles,
                   gparts, gall, merged, variant, nLines, concurrency, idx, fpc, index,
                   claimed, results, sink, appendFailed, returned>>

NextPool ==
    \/ PoolStart
    \/ \E w \in PoolWorkers, r \in FetchOutcomes : FetchReturn(w, r)
    \/ \E w \in PoolWorkers, ok \in BOOLEAN : AppendDone(w, ok)
    \/ \E w \in PoolWorkers : WaitDone(w)
    \/ PoolFinish

SpecPool == PoolInit /\ [][NextPool]_vars

\* Every request returns or times out, every append and every delay ends.
SpecPoolFair == SpecPool /\ WF_vars(NextPool)

\* --------------------------------------------------------- specifications
\* What the server and its workers can do, whatever the number of jobs.
Step ==
    \/ \E j \in JobIds : Status(j)
    \/ \E j \in JobIds : CancelBegin(j)
    \/ \E j \in JobIds, ok \in BOOLEAN : CancelEnd(j, ok)
    \/ \E w \in Workers, ok \in BOOLEAN : WorkerMkdir(w, ok)
    \/ \E w \in Workers : WorkerPostDone(w)
    \/ \E w \in Workers : WorkerPostError(w)
    \/ \E w \in Workers : Deliver(w)
    \/ \E w \in Workers : ErrorEvent(w)
    \/ \E w \in Workers, code \in {0, 1} : ExitEvent(w, code)

\* POST /scan while fewer than MaxSubmits jobs have been accepted.
SubmitFew(u) ==
    /\ RejectReason(u) = "none" => nSubmits < MaxSubmits
    /\ Submit(u)

Next ==
    \/ \E u \in Urls : SubmitFew(u)
    \/ Step

Spec == Init /\ [][Next]_vars

\* Several jobs, their ids drawn independently.
NextJobs ==
    \/ \E u \in Urls : Submit(u)
    \/ Step

SpecJobs == Init /\ [][NextJobs]_vars

\* One job, its worker script run statement by statement.
SubmitOne(u) == nSubmits = 0 /\ Submit(u)

NextPipeline ==
    \/ \E u \in Urls : SubmitOne(u)
    \/ \E ok \in BOOLEAN : P_Mkdir(ok)
    \/ \E o \in ToolOutcomes, wrote \in BOOLEAN : P_Subfinder(o, wrote)
    \/ \E o \in ToolOutcomes, wrote \in BOOLEAN : P_Amass(o, wrote)
    \/ \E o \in ToolOutcomes, fsok \in BOOLEAN : P_Merge(o, fsok)
    \/ \E o \in ToolOutcomes, wrote \in BOOLEAN, fsok \in BOOLEAN : P_Httpx(o, wrote, fsok)
    \/ P_Parse
    \/ \E failing \in Artifacts \cup {"none"} : P_Save(failing)
    \/ \E w \in Workers : Deliver(w)
    \/ \E w \in Workers, code \in {0, 1} : ExitEvent(w, code)

SpecPipeline == Init /\ [][NextPipeline]_vars

\* ------------------------------------------------------------- properties
IsPrefix(s, t) == Len(s) <= Len(t) /\ \A i \in DOMAIN s : s[i] = t[i]

LifeCycles == {<<"queued", "running", "done">>, <<"queued", "running", "failed">>}

C2_ExitWithoutTerminalFails ==
    /\ [](\A j \in JobIds :
            jobs[j].status = "running" => wstate[jobs[j].worker] # "exited")
    /\ [][\A w \in Workers :
            (/\ Alive(w)
             /\ wstate'[w] \in {"dying", "exited"}
             /\ w \notin termDelivered
             /\ jobs[wjob[w]].worker = w)
            => (/\ jobs'[wjob[w]].status = "failed"
                /\ jobs'[wjob[w]].error \in {"thread", "exit"}
                /\ jobs'[wjob[w]].worker = 0)]_vars

\* A terminated worker has exited with nothing delivered and the exit handler
\* has set its job failed.
C2_Witness ==
    \E w \in Workers :
        /\ wstate[w] = "exited"
        /\ w \notin termDelivered
        /\ jobs[wjob[w]] = Entry("failed", 0, "exit", 0)

LowercaseValid(h) ==
    /\ Len(h) > 0
    /\ \A i \in DOMAIN h : h[i] \in {"a", ".", "-"}
    /\ \E i \in DOMAIN h : h[i] = "."

\* The same with letters of either case.
CaseFoldValid(h) ==
    /\ Len(h) > 0
    /\ \A i \in DOMAIN h : h[i] \in {"a", "A", ".", "-"}
    /\ \E i \in DOMAIN h : h[i] = "."

\* The requests whose hostname the rule as stated in prose refuses.
NotLowercaseValid == {u \in Urls : u.kind = "url" /\ ~LowercaseValid(UrlHostname(u))}

NotCaseFoldValid == {u \in Urls : u.kind = "url" /\ ~CaseFoldValid(UrlHostname(u))}

\* Every such request is answered 400.
LowercaseInvalidRefused ==
    \A u \in NotLowercaseValid, id \in JobIds : SubmitResponse(u, id).code = 400

CaseFoldInvalidRefused ==
    \A u \in NotCaseFoldValid, id \in JobIds : SubmitResponse(u, id).code = 400

\* C4 as stated: a POST /scan whose URL's hostname is missing, has no dot or
\* has a character other than a lowercase letter, digit, dot or hyphen is
\* answered 400, and no step that allocates an id is the handling of such a
\* request.
C4_LowercaseOnly ==
    /\ [](LowercaseInvalidRefused)
    /\ [][(nSubmits' # nSubmits \/ issued' # issued)
          => \A u \in NotLowercaseValid : ~Submit(u)]_vars

\* C4: a POST /scan whose URL's hostname is missing, has no dot or has a
\* character other than a letter of either case, digit, dot or hyphen is
\* answered 400, and no step that allocates an id (the only steps that add an
\* entry or create a worker) is the handling of such a request.
C4_InvalidHostnameRejected ==
    /\ [](CaseFoldInvalidRefused)
    /\ [][(nSubmits' # nSubmits \/ issued' # issued)
          => \A u \in NotCaseFoldValid : ~Submit(u)]_vars

\* A job is running when a request with an invalid hostname is answered.
C4_Witness ==
    \E j \in JobIds, u \in Urls :
        /\ jobs[j].status = "running"
        /\ u \in NotCaseFoldValid
        /\ SubmitResponse(u, j).body = "invalid hostname"

\* C5: an accepted POST /scan leaves the new job running, with the handle of
\* a worker constructed for it in that request.
C5_SubmitStartsWorker ==
    [][nSubmits' = nSubmits + 1
       => \E id \in JobIds :
             /\ jobs'[id].status = "running"
             /\ nWorkers' = nWorkers + 1
             /\ jobs'[id].worker = nWorkers'
             /\ wstate'[nWorkers'] = "started"]_vars

\* C6: an accepted POST /scan returns an id no earlier one returned and
\* leaves every entry the table already had as it was.
C6_FreshIds ==
    [][nSubmits' = nSubmits + 1
       => (/\ issued' # issued
           /\ \A j \in JobIds : jobs[j] # NoJob => jobs'[j] = jobs[j])]_vars

NoFsFailure == \A s \in Stages : outcome[s] # "fsfail"

Quiescent == \A w \in Workers : wstate[w] \in {"unborn", "exited"} /\ chan[w] = <<>>

ToolsUnavailable ==
    \A s \in {"subfinder", "amass", "httpx"} : outcome[s] \in {"none", "missing"}

\* C9: a job submitted with no tool installed and the file system never
\* failing is done once nothing is left to run, with a record for each of the
\* six stages and an all.txt.
C9_ToolsUnavailableStillDone ==
    \A j \in issued :
        (Quiescent /\ ToolsUnavailable /\ NoFsFailure)
        => (jobs[j].status = "done" /\ tasks = StageNames /\ "all.txt" \in files)

Terminal(e) == e \in {"done", "error"}

\* C10: the script posts at most one done or error event, nothing after it,
\* and a script that is through has posted one.
C10_OneTerminalEventLast ==
    /\ Cardinality({i \in DOMAIN emitted : Terminal(emitted[i])}) <= 1
    /\ \A i \in DOMAIN emitted : Terminal(emitted[i]) => i = Len(emitted)
    /\ ppc = "end" => (emitted # <<>> /\ Terminal(emitted[Len(emitted)]))

\* A run through all six stages has posted its logs and then done.
C10_Witness ==
    /\ ppc = "end"
    /\ tasks = StageNames
    /\ emitted[Len(emitted)] = "done"
    /\ \A i \in 1..(Len(emitted) - 1) : emitted[i] = "log"

\* C11: when the server handles a message of worker w, a done message sets
\* the entry of w's job to done with the result the message carries, an error
\* message sets it to failed with the message's detail, and a log message
\* leaves the table as it is.
C11_MessageSetsEntry ==
    [][\A w \in Workers :
          (chan[w] # <<>> /\ chan'[w] = Tail(chan[w]))
          => (/\ Head(chan[w]) = "done"
                   => jobs' = [jobs EXCEPT ![wjob[w]] = Entry("done", 0, "none", w)]
              /\ Head(chan[w]) = "error"
                   => jobs' = [jobs EXCEPT ![wjob[w]] = Entry("failed", 0, "message", 0)]
              /\ Head(chan[w]) = "log" => jobs' = jobs)]_vars

\* The error message of a script that failed has been handled after its logs.
C11_Witness ==
    /\ PW \in termDelivered
    /\ Len(emitted) > 1
    /\ emitted[Len(emitted)] = "error"
    /\ jobs[wjob[PW]] = Entry("failed", 0, "message", 0)

\* The artifacts of the job of worker PW that are on disk.
ArtifactsOnDisk ==
    (files \cap Artifacts)
    \cup (IF wjob[PW] # 0 /\ metaOnDisk[wjob[PW]] # 0 THEN {"meta.json"} ELSE {})

C13_ClassificationRanges ==
    ctag # "none"
    => (/\ ctag = "OK" <=> cstatus \in 200..299
        /\ ctag = "REDIRECT" <=> cstatus \in 300..399
        /\ ctag = "NOTFOUND/CLIENT" <=> cstatus \in 400..499
        /\ ctag = "SERVERERROR" <=> cstatus \in 500..599
        /\ ctag = "UNKNOWN" <=> cstatus \notin 200..599)

\* The positions of raw where a non-empty line starts.
LineStarts(r) == {i \in DOMAIN r : r[i] # "\n" /\ (i = 1 \/ r[i - 1] = "\n")}

\* The line that starts at position i.
LineAt(r, i) ==
    LET e == CHOOSE k \in i..Len(r) :
                 /\ \A h \in i..k : r[h] # "\n"
                 /\ (k = Len(r) \/ r[k + 1] = "\n")
    IN  SubSeq(r, i, e)

\* The n-th non-empty line.
NthLine(r, n) ==
    LineAt(r, CHOOSE i \in LineStarts(r) :
                  Cardinality({h \in LineStarts(r) : h < i}) = n - 1)

\* C18: TASK 5 gives one record per non-empty line of its input, in the
\* order of the lines: the parsed value of a line that is valid JSON, a
\* parse-error record carrying the line otherwise.
C18_OneRecordPerLine ==
    parsed
    => (/\ Len(jsonLines) = Cardinality(LineStarts(raw))
        /\ \A n \in 1..Len(jsonLines) :
              LET l == NthLine(raw, n)
              IN  IF \A i \in DOMAIN l : l[i] = "1"
                  THEN jsonLines[n].kind = "number" /\ jsonLines[n].digits = Len(l)
                  ELSE jsonLines[n].kind = "_parseError" /\ jsonLines[n].raw = l)

\* A valid line, an empty line and an invalid line have been parsed.
C18_Witness ==
    /\ parsed
    /\ raw = <<"1", "\n", "\n", "x">>
    /\ Len(jsonLines) = 2
    /\ jsonLines[1].kind = "number"
    /\ jsonLines[2] = [kind |-> "_parseError", digits |-> 0, raw |-> <<"x">>]

Range(ls) == {ls[i] : i \in DOMAIN ls}

Positions == 0..(nLines - 1)

Busy(w) == fpc[w] \in {"fetching", "appending", "waiting"}

\* C12: in every interleaving of the pool's workers, no index is taken twice,
\* every index taken is a position of the input, two workers never hold the
\* same index, no position has two results, a result's index is its position,
\* and when the run has finished every position has been taken and has its
\* result: N results for N lines.
C12_EachIndexClaimedOnce ==
    /\ \A i, j \in DOMAIN claimed : i # j => claimed[i] # claimed[j]
    /\ \A i \in DOMAIN claimed : claimed[i] \in Positions
    /\ \A v, w \in PoolWorkers : (v # w /\ Busy(v) /\ Busy(w)) => index[v] # index[w]
    /\ \A i, j \in DOMAIN results : i # j => results[i].suffix # results[j].suffix
    /\ \A i \in DOMAIN results :
          /\ results[i].suffix \in Positions
          /\ variant = "main" => results[i].index = results[i].suffix + 1
    /\ mainpc = "finished" =>
          /\ Range(claimed) = Positions
          /\ Len(results) = nLines
          /\ {results[i].suffix : i \in DOMAIN results} = Positions

\* A finished run of two workers whose results are not in the order of the input.
C12_Witness ==
    /\ mainpc = "finished"
    /\ nLines >= 2
    /\ concurrency >= 2
    /\ Len(results) = nLines
    /\ results[1].suffix > results[2].suffix


Failed(i) == ~returned[i].r.ok

ResultsOf(pos) == {j \in DOMAIN results : results[j].suffix = pos}

OneErrorResult ==
    \A i \in DOMAIN returned :
        Failed(i) =>
            /\ Cardinality(ResultsOf(returned[i].suffix)) = 1
            /\ \A j \in ResultsOf(returned[i].suffix) :
                  /\ ~results[j].num
                  /\ variant = "main" => results[j].tag = "ERROR"
                  /\ results[j].detail = "TIMEOUT" <=> returned[i].r.err = "AbortError"

\* C14: a request that failed or was aborted by the timer has exactly one
\* result, whose status is ERROR (and whose tag is ERROR in main.js) and whose
\* detail is the timeout text exactly when the timer aborted it; and once a
\* request has failed the run still finishes with every worker out of its loop
\* and one result per line.
C14_FailureIsOneErrorResult ==
    /\ []OneErrorResult
    /\ (\E i \in DOMAIN returned : Failed(i))
          ~> (mainpc = "finished" /\ AllSettled /\ Len(results) = nLines)

\* One worker, two lines: the first request timed out, the second failed
\* otherwise, and the run finished.
C14_Witness ==
    /\ mainpc = "finished"
    /\ concurrency = 1
    /\ Len(returned) = 2
    /\ returned[1].r.err = "AbortError"
    /\ returned[2].r.err = "TypeError"
    /\ Len(results) = 2

Logged(pos) == pos + 1 \in Range(sink) \/ pos + 1 \in appendFailed

\* The worker whose loop takes an index in this step, holding pos until then.
Proceeds(w) == mainpc = "running" /\ idx' # idx /\ fpc'[w] # fpc[w]

\* C15: when a worker takes its next index, the result of the index it held is
\* in results and, in main.js, its line was already appended to results.txt or
\* the failure of that append was already logged; results only grows at its
\* end, one result per returned request and in the order the requests returned.
C15_ResultStoredBeforeNextClaim ==
    /\ [][\A w \in PoolWorkers :
             Proceeds(w) =>
                 /\ \E j \in DOMAIN results' : results'[j].suffix = index[w]
                 /\ variant = "main" =>
                       /\ \E j \in DOMAIN results : results[j].suffix = index[w]
                       /\ Logged(index[w])]_vars
    /\ [][IsPrefix(results, results')]_vars
    /\ [](/\ Len(results) = Len(returned)
          /\ \A i \in DOMAIN results : results[i].suffix = returned[i].suffix)

\* One worker of main.js took the second index after the append of its first
\* result had failed, and the second append succeeded.
C15_Witness ==
    /\ variant = "main"
    /\ concurrency = 1
    /\ claimed = <<0, 1>>
    /\ appendFailed = {1}
    /\ sink = <<2>>

Returned2xx ==
    {i \in DOMAIN returned :
        returned[i].r.ok /\ returned[i].r.status >= 200 /\ returned[i].r.status < 300}

Returned3xx ==
    {i \in DOMAIN returned :
        returned[i].r.ok /\ returned[i].r.status >= 300 /\ returned[i].r.status < 400}

SummaryOverAll ==
    /\ summary.done =>
          /\ mainpc = "finished"
          /\ AllSettled
          /\ \A w \in PoolWorkers : fpc[w] = "done" => index[w] >= nLines
          /\ summary.total = nLines
          /\ summary.ok = Cardinality(Returned2xx)
          /\ summary.redirects = Cardinality(Returned3xx)
    /\ (mainpc = "finished" /\ nLines > 0) => summary.done

\* C16: when every request returns or times out the run finishes; the summary
\* is computed only when every worker has left its loop on an index past the
\* last line, and it is over all the results: its total is the number of
\* lines, its OK count the number of requests answered 2xx, its redirect count
\* the number answered 3xx.  A run over no lines finishes without a summary.
C16_TerminatesWithFullSummary ==
    /\ <>(mainpc = "finished")
    /\ []SummaryOverAll

\* A finished run over two lines, one answered 200 and one answered 301.
C16_Witness ==
    /\ mainpc = "finished"
    /\ summary = [done |-> TRUE, total |-> 2, ok |-> 1, redirects |-> 1]
    /\ nLines = 2

\* ------------------------------------------------------- jobs side by side

\* The worker of the latest job accepted under id j, 0 when there is none: the
\* job the entry of j stands for.
Owner(j) ==
    LET ws == {w \in Workers : w <= nWorkers /\ wjob[w] = j}
    IN  IF ws = {} THEN 0 ELSE CHOOSE w \in ws : \A v \in ws : v <= w

\* This step runs one of the three handlers attached to worker w.
Handles(w) ==
    \/ chan[w] # <<>> /\ chan'[w] = Tail(chan[w])
    \/ wstate'[w] # wstate[w] /\ wstate'[w] \in {"dying", "exited"}

Started == {w \in PoolWorkers : fpc[w] # "unused"}

InFlight == {w \in PoolWorkers : fpc[w] = "fetching"}

\* C22: the workers started, and so the requests in flight, are never more
\* than concurrency nor more than the number of lines, and idx never decreases.
C22_PoolBounded ==
    /\ [](/\ Cardinality(Started) <= concurrency
          /\ Cardinality(Started) <= nLines
          /\ Cardinality(InFlight) <= concurrency
          /\ Cardinality(InFlight) <= nLines)
    /\ [][idx' >= idx]_vars

\* One line and a concurrency of two: one worker is started, its request in flight.
C22_Witness ==
    /\ nLines = 1
    /\ concurrency = 2
    /\ InFlight = {1}
    /\ Started = {1}

\* ------------------------------------------------------------------ cancel

\* C23: a DELETE answers deleted exactly when fs.rm succeeded, and then the
\* entry of the id is gone; when fs.rm failed it answers 500 and the entry is
\* as it was; and terminate() has been called on the worker the entry held,
\* if it was alive, before fs.rm is awaited.
C23_CancelDeletesOnlyOnRemoval ==
    /\ [][rmPending' # rmPending =>
            \A j \in JobIds :
                /\ (rmPending[j] # "none" /\ rmPending'[j] = "none") =>
                      \E ok \in BOOLEAN :
                          /\ CancelEnd(j, ok)
                          /\ CancelResponse(j, ok).code = 200 <=> ok
                          /\ CancelResponse(j, ok).body = "deleted" <=> ok
                          /\ ok => jobs'[j] = NoJob
                          /\ ~ok => /\ CancelResponse(j, ok).code = 500
                                    /\ jobs'[j] = jobs[j]
                /\ (rmPending[j] = "none" /\ rmPending'[j] = "running") =>
                      /\ jobs[j].worker # 0
                      /\ Alive(jobs[j].worker) => jobs[j].worker \in wterm'
                      /\ jobs'[j] = jobs[j]]_vars

\* The DELETE of a running job has failed at fs.rm: the entry is still there,
\* still running, and its worker has been told to terminate.
C23_Witness ==
    /\ nCancels = 1
    /\ \A j \in JobIds : rmPending[j] = "none"
    /\ \E j \in JobIds :
          /\ jobs[j].status = "running"
          /\ jobs[j].worker \in wterm

\* ------------------------------------------------------------- meta.json

C26_HandleIffRunning ==
    /\ [](\A j \in JobIds :
            jobs[j] # NoJob => (jobs[j].worker # 0 <=> jobs[j].status = "running"))
    /\ [][nCancels' # nCancels =>
            \A w \in wterm' \ wterm :
                \E j \in JobIds : jobs[j].status = "running" /\ jobs[j].worker = w]_vars

\* A DELETE has arrived for a job that is done while its thread is still
\* alive: the entry holds no handle and terminate() has been called on nothing.
C26_Witness ==
    \E j \in JobIds :
        /\ jobs[j].status = "done"
        /\ jobs[j].worker = 0
        /\ rmPending[j] = "plain"
        /\ Owner(j) # 0
        /\ Alive(Owner(j))
        /\ wterm = {}

====
